---- MODULE Spec2Model ----
(***************************************************************************)
(* GaussianPolicy (softlearning/policies/gaussian_policy.py): a squashed   *)
(* diagonal-Gaussian policy built as two Keras models, actions_model and   *)
(* log_pis_model, over one conditioner network.                            *)
(*                                                                         *)
(* Tensors hold binary floating-point numbers.  A number is modelled as    *)
(* m * 2^e with a 4-bit significand (8 <= |m| <= 15 when normal), the      *)
(* exponent range of float32, round-to-nearest-even, gradual underflow,    *)
(* +Inf, -Inf and NaN.  Every arithmetic operation rounds as IEEE-754      *)
(* does; the elementary functions (exp, log, tanh, atanh, softplus) are    *)
(* correctly rounded to the format.  Only the significand is narrower      *)
(* than float32's 24 bits, so what float32 does at |x| > 9.01 (tanh        *)
(* rounds to 1) happens here at |x| >= 2.25.                               *)
(***************************************************************************)
EXTENDS Integers, Sequences, FiniteSets, TLC

(***************************************************************************)
(* Floating-point numbers                                                  *)
(***************************************************************************)
Fin(m, e) == [c |-> "fin", m |-> m, e |-> e]

Zero == Fin(0, 0)

PInf == [c |-> "inf", m |-> 1, e |-> 0]

NInf == [c |-> "inf", m |-> -1, e |-> 0]

NaN == [c |-> "nan", m |-> 0, e |-> 0]

Inf(s) == IF s < 0 THEN NInf ELSE PInf

IsFinite(x) == x.c = "fin"

IsNaN(x) == x.c = "nan"

Abs(n) == IF n < 0 THEN -n ELSE n

Sgn(n) == IF n < 0 THEN -1 ELSE IF n > 0 THEN 1 ELSE 0

Pow2(k) == IF k <= 0 THEN 1 ELSE 2 ^ k

\* The number of bits of n >= 0.
RECURSIVE BitLen(_)
BitLen(n) ==
  IF n >= 256 THEN 8 + BitLen(n \div 256)
  ELSE IF n >= 16 THEN (IF n >= 64 THEN (IF n >= 128 THEN 8 ELSE 7)
                                  ELSE (IF n >= 32 THEN 6 ELSE 5))
  ELSE IF n >= 4 THEN (IF n >= 8 THEN 4 ELSE 3)
  ELSE IF n >= 2 THEN 2 ELSE n

\* The exponent of the 4-bit significand of a * 2^e, a of len bits, no lower
\* than the subnormal exponent.
Exponent(len, e) == IF e + len - 4 < -129 THEN -129 ELSE e + len - 4

\* Round to nearest, ties to even: q the truncated significand, r2 twice the
\* remainder and p the weight of q's last place.
RoundUp(q, r2, p) == IF r2 > p \/ (r2 = p /\ q % 2 = 1) THEN 1 ELSE 0

\* a / p rounded to an integer, p a power of two.
Quotient(a, p) == (a \div p) + RoundUp(a \div p, 2 * (a % p), p)

\* a * 2^(-sh) rounded to an integer.
Significand(a, sh) == IF sh <= 0 THEN a * Pow2(-sh) ELSE Quotient(a, Pow2(sh))

\* Sign s, significand m, exponent t: overflow is Inf, a zero significand is 0.
Pack(s, m, t) == IF t > 124 THEN Inf(s) ELSE IF m = 0 THEN Zero ELSE Fin(s * m, t)

\* A significand rounded up to 16 is 8 with the next exponent.
Normalize(s, m, t) == IF m = 16 THEN Pack(s, 8, t + 1) ELSE Pack(s, m, t)

RoundTo(s, a, e, t) ==
  IF t - e > BitLen(a) + 1 THEN Zero ELSE Normalize(s, Significand(a, t - e), t)

\* The float nearest to the exact value n * 2^e (ties to even).
Round(n, e) ==
  IF n = 0 THEN Zero ELSE RoundTo(Sgn(n), Abs(n), e, Exponent(BitLen(Abs(n)), e))

\* An integer as a float (a Python int or a literal fed to a tensor).
F(n) == Round(n, 0)

Neg(x) == IF x.c = "nan" THEN NaN ELSE [x EXCEPT !.m = -x.m]

\* x + y of two finite numbers; hi is the operand of the larger exponent.
AddFin(x, y) ==
  IF x.m = 0 THEN y
  ELSE IF y.m = 0 THEN x
  ELSE LET hi == IF x.e >= y.e THEN x ELSE y
           lo == IF x.e >= y.e THEN y ELSE x
           d  == hi.e - lo.e
       IN IF d <= 6 THEN Round(hi.m * Pow2(d) + lo.m, lo.e)
          ELSE Round(hi.m * 8 + Sgn(lo.m), hi.e - 3)

Add(x, y) ==
  IF x.c = "nan" \/ y.c = "nan" THEN NaN
  ELSE IF x.c = "inf" /\ y.c = "inf" THEN (IF x.m = y.m THEN x ELSE NaN)
  ELSE IF x.c = "inf" THEN x
  ELSE IF y.c = "inf" THEN y
  ELSE AddFin(x, y)

Sub(x, y) == Add(x, Neg(y))

Mul(x, y) ==
  IF x.c = "nan" \/ y.c = "nan" THEN NaN
  ELSE IF x.c = "inf" \/ y.c = "inf"
       THEN (IF x.m = 0 \/ y.m = 0 THEN NaN ELSE Inf(Sgn(x.m) * Sgn(y.m)))
  ELSE Round(x.m * y.m, x.e + y.e)

Div(x, y) ==
  IF x.c = "nan" \/ y.c = "nan" THEN NaN
  ELSE IF x.c = "inf" THEN (IF y.c = "inf" THEN NaN
                            ELSE Inf(x.m * (IF y.m < 0 THEN -1 ELSE 1)))
  ELSE IF y.c = "inf" THEN Zero
  ELSE IF y.m = 0 THEN (IF x.m = 0 THEN NaN ELSE Inf(Sgn(x.m)))
  ELSE LET n == Abs(x.m) * 2048
           q == n \div Abs(y.m)
           r == n % Abs(y.m)
       IN Round(Sgn(x.m) * Sgn(y.m) * (2 * q + (IF r = 0 THEN 0 ELSE 1)),
                x.e - y.e - 12)

\* x < y; false when either is NaN.
Less(x, y) ==
  IF x.c = "nan" \/ y.c = "nan" THEN FALSE
  ELSE IF x = y THEN FALSE
  ELSE IF x.c = "inf" THEN x.m < 0
  ELSE IF y.c = "inf" THEN y.m > 0
  ELSE AddFin(x, Neg(y)).m < 0

Maximum(x, y) == IF x.c = "nan" \/ y.c = "nan" THEN NaN ELSE IF Less(x, y) THEN y ELSE x

Minimum(x, y) == IF x.c = "nan" \/ y.c = "nan" THEN NaN ELSE IF Less(y, x) THEN y ELSE x

(***************************************************************************)
(* Elementary functions, correctly rounded                                 *)
(***************************************************************************)
One == Fin(8, -3)

Half == Fin(8, -4)

Two == Fin(8, -2)

\* math.log(2.0) and 0.5 * math.log(2 * math.pi), rounded to the format.
Log2 == Fin(11, -4)

HalfLog2Pi == Fin(15, -4)

Key(x) == <<x.m, x.e>>

Val(k) == Fin(k[1], k[2])

Mag(x) == [x EXCEPT !.m = Abs(x.m)]

WithSign(s, x) == IF s < 0 THEN Neg(x) ELSE x

\* tanh(x) rounded to the format, for the x > 0 where the result is neither x
\* (x < 1/2) nor 1 (x >= 1/2); key and value are <<m, e>>.
TanhTab ==
  (<<12, -5>> :> <<11, -5>>) @@ (<<13, -5>> :> <<12, -5>>) @@ (<<14, -5>> :> <<13, -5>>)
  @@ (<<15, -5>> :> <<14, -5>>) @@ (<<8, -4>> :> <<15, -5>>) @@ (<<9, -4>> :> <<8, -4>>)
  @@ (<<10, -4>> :> <<9, -4>>) @@ (<<11, -4>> :> <<10, -4>>) @@ (<<12, -4>> :> <<10, -4>>)
  @@ (<<13, -4>> :> <<11, -4>>) @@ (<<14, -4>> :> <<11, -4>>) @@ (<<15, -4>> :> <<12, -4>>)
  @@ (<<8, -3>> :> <<12, -4>>) @@ (<<9, -3>> :> <<13, -4>>) @@ (<<10, -3>> :> <<14, -4>>)
  @@ (<<11, -3>> :> <<14, -4>>) @@ (<<12, -3>> :> <<14, -4>>) @@ (<<13, -3>> :> <<15, -4>>)
  @@ (<<14, -3>> :> <<15, -4>>) @@ (<<15, -3>> :> <<15, -4>>) @@ (<<8, -2>> :> <<15, -4>>)

\* atanh(y) rounded to the format, for the 0 < y < 1 where the result is not y.
AtanhTab ==
  (<<12, -5>> :> <<13, -5>>) @@ (<<13, -5>> :> <<14, -5>>) @@ (<<14, -5>> :> <<15, -5>>)
  @@ (<<15, -5>> :> <<8, -4>>) @@ (<<8, -4>> :> <<9, -4>>) @@ (<<9, -4>> :> <<10, -4>>)
  @@ (<<10, -4>> :> <<12, -4>>) @@ (<<11, -4>> :> <<13, -4>>) @@ (<<12, -4>> :> <<8, -3>>)
  @@ (<<13, -4>> :> <<9, -3>>) @@ (<<14, -4>> :> <<11, -3>>) @@ (<<15, -4>> :> <<14, -3>>)

\* log(1 + exp(t)) rounded to the format, for the t where the result is none of:
\* the rounded log(2) (|t| < 1/8), t itself (t >= 1/8), 0 (t <= -1/8).
SoftplusTab ==
  (<<-11, 3>> :> <<4, -129>>) @@ (<<-10, 3>> :> <<12, -119>>) @@ (<<-9, 3>> :> <<9, -107>>)
  @@ (<<-8, 3>> :> <<13, -96>>) @@ (<<-15, 2>> :> <<11, -90>>) @@ (<<-14, 2>> :> <<9, -84>>)
  @@ (<<-13, 2>> :> <<8, -78>>) @@ (<<-12, 2>> :> <<13, -73>>) @@ (<<-11, 2>> :> <<11, -67>>)
  @@ (<<-10, 2>> :> <<10, -61>>) @@ (<<-9, 2>> :> <<8, -55>>) @@ (<<-8, 2>> :> <<14, -50>>)
  @@ (<<-15, 1>> :> <<13, -47>>) @@ (<<-14, 1>> :> <<12, -44>>) @@ (<<-13, 1>> :> <<11, -41>>)
  @@ (<<-12, 1>> :> <<10, -38>>) @@ (<<-11, 1>> :> <<10, -35>>) @@ (<<-10, 1>> :> <<9, -32>>)
  @@ (<<-9, 1>> :> <<8, -29>>) @@ (<<-8, 1>> :> <<15, -27>>) @@ (<<-15, 0>> :> <<10, -25>>)
  @@ (<<-14, 0>> :> <<14, -24>>) @@ (<<-13, 0>> :> <<9, -22>>) @@ (<<-12, 0>> :> <<13, -21>>)
  @@ (<<-11, 0>> :> <<9, -19>>) @@ (<<-10, 0>> :> <<12, -18>>) @@ (<<-9, 0>> :> <<8, -16>>)
  @@ (<<-8, 0>> :> <<11, -15>>) @@ (<<-15, -1>> :> <<9, -14>>) @@ (<<-14, -1>> :> <<15, -14>>)
  @@ (<<-13, -1>> :> <<12, -13>>) @@ (<<-12, -1>> :> <<10, -12>>) @@ (<<-11, -1>> :> <<8, -11>>)
  @@ (<<-10, -1>> :> <<14, -11>>) @@ (<<-9, -1>> :> <<11, -10>>) @@ (<<-8, -1>> :> <<9, -9>>)
  @@ (<<-15, -2>> :> <<12, -9>>) @@ (<<-14, -2>> :> <<15, -9>>) @@ (<<-13, -2>> :> <<10, -8>>)
  @@ (<<-12, -2>> :> <<12, -8>>) @@ (<<-11, -2>> :> <<8, -7>>) @@ (<<-10, -2>> :> <<10, -7>>)
  @@ (<<-9, -2>> :> <<13, -7>>) @@ (<<-8, -2>> :> <<8, -6>>) @@ (<<-15, -3>> :> <<9, -6>>)
  @@ (<<-14, -3>> :> <<10, -6>>) @@ (<<-13, -3>> :> <<12, -6>>) @@ (<<-12, -3>> :> <<13, -6>>)
  @@ (<<-11, -3>> :> <<14, -6>>) @@ (<<-10, -3>> :> <<8, -5>>) @@ (<<-9, -3>> :> <<9, -5>>)
  @@ (<<-8, -3>> :> <<10, -5>>) @@ (<<-15, -4>> :> <<11, -5>>) @@ (<<-14, -4>> :> <<11, -5>>)
  @@ (<<-13, -4>> :> <<12, -5>>) @@ (<<-12, -4>> :> <<12, -5>>) @@ (<<-11, -4>> :> <<13, -5>>)
  @@ (<<-10, -4>> :> <<14, -5>>) @@ (<<-9, -4>> :> <<14, -5>>) @@ (<<-8, -4>> :> <<15, -5>>)
  @@ (<<-15, -5>> :> <<8, -4>>) @@ (<<-14, -5>> :> <<8, -4>>) @@ (<<-13, -5>> :> <<8, -4>>)
  @@ (<<-12, -5>> :> <<8, -4>>) @@ (<<-11, -5>> :> <<9, -4>>) @@ (<<-10, -5>> :> <<9, -4>>)
  @@ (<<-9, -5>> :> <<9, -4>>) @@ (<<-8, -5>> :> <<9, -4>>) @@ (<<-15, -6>> :> <<9, -4>>)
  @@ (<<-14, -6>> :> <<9, -4>>) @@ (<<-13, -6>> :> <<10, -4>>) @@ (<<-12, -6>> :> <<10, -4>>)
  @@ (<<-11, -6>> :> <<10, -4>>) @@ (<<-10, -6>> :> <<10, -4>>) @@ (<<-9, -6>> :> <<10, -4>>)
  @@ (<<-8, -6>> :> <<10, -4>>) @@ (<<-15, -7>> :> <<10, -4>>) @@ (<<-14, -7>> :> <<10, -4>>)
  @@ (<<-13, -7>> :> <<10, -4>>) @@ (<<-12, -7>> :> <<10, -4>>) @@ (<<-11, -7>> :> <<10, -4>>)
  @@ (<<-10, -7>> :> <<10, -4>>) @@ (<<13, -8>> :> <<12, -4>>) @@ (<<14, -8>> :> <<12, -4>>)
  @@ (<<15, -8>> :> <<12, -4>>) @@ (<<8, -7>> :> <<12, -4>>) @@ (<<9, -7>> :> <<12, -4>>)
  @@ (<<10, -7>> :> <<12, -4>>) @@ (<<11, -7>> :> <<12, -4>>) @@ (<<12, -7>> :> <<12, -4>>)
  @@ (<<13, -7>> :> <<12, -4>>) @@ (<<14, -7>> :> <<12, -4>>) @@ (<<15, -7>> :> <<12, -4>>)
  @@ (<<8, -6>> :> <<12, -4>>) @@ (<<9, -6>> :> <<12, -4>>) @@ (<<10, -6>> :> <<12, -4>>)
  @@ (<<11, -6>> :> <<13, -4>>) @@ (<<12, -6>> :> <<13, -4>>) @@ (<<13, -6>> :> <<13, -4>>)
  @@ (<<14, -6>> :> <<13, -4>>) @@ (<<15, -6>> :> <<13, -4>>) @@ (<<8, -5>> :> <<13, -4>>)
  @@ (<<9, -5>> :> <<13, -4>>) @@ (<<10, -5>> :> <<14, -4>>) @@ (<<11, -5>> :> <<14, -4>>)
  @@ (<<12, -5>> :> <<14, -4>>) @@ (<<13, -5>> :> <<15, -4>>) @@ (<<14, -5>> :> <<15, -4>>)
  @@ (<<15, -5>> :> <<15, -4>>) @@ (<<8, -4>> :> <<8, -3>>) @@ (<<9, -4>> :> <<8, -3>>)
  @@ (<<10, -4>> :> <<8, -3>>) @@ (<<11, -4>> :> <<9, -3>>) @@ (<<12, -4>> :> <<9, -3>>)
  @@ (<<13, -4>> :> <<9, -3>>) @@ (<<14, -4>> :> <<10, -3>>) @@ (<<15, -4>> :> <<10, -3>>)
  @@ (<<8, -3>> :> <<11, -3>>) @@ (<<9, -3>> :> <<11, -3>>) @@ (<<10, -3>> :> <<12, -3>>)
  @@ (<<11, -3>> :> <<13, -3>>) @@ (<<12, -3>> :> <<14, -3>>) @@ (<<13, -3>> :> <<14, -3>>)
  @@ (<<14, -3>> :> <<15, -3>>) @@ (<<15, -3>> :> <<8, -2>>) @@ (<<8, -2>> :> <<9, -2>>)

\* exp(x) rounded to the format, for the integers x of the format in [-20, 2].
ExpTab ==
  (<<-10, 1>> :> <<9, -32>>) @@ (<<-9, 1>> :> <<8, -29>>) @@ (<<-8, 1>> :> <<15, -27>>)
  @@ (<<-15, 0>> :> <<10, -25>>) @@ (<<-14, 0>> :> <<14, -24>>) @@ (<<-13, 0>> :> <<9, -22>>)
  @@ (<<-12, 0>> :> <<13, -21>>) @@ (<<-11, 0>> :> <<9, -19>>) @@ (<<-10, 0>> :> <<12, -18>>)
  @@ (<<-9, 0>> :> <<8, -16>>) @@ (<<-8, 0>> :> <<11, -15>>) @@ (<<-14, -1>> :> <<15, -14>>)
  @@ (<<-12, -1>> :> <<10, -12>>) @@ (<<-10, -1>> :> <<14, -11>>) @@ (<<-8, -1>> :> <<9, -9>>)
  @@ (<<-12, -2>> :> <<13, -8>>) @@ (<<-8, -2>> :> <<9, -6>>) @@ (<<-8, -3>> :> <<12, -5>>)
  @@ (<<0, 0>> :> <<8, -3>>) @@ (<<8, -3>> :> <<11, -2>>) @@ (<<8, -2>> :> <<15, -1>>)

\* log(x) rounded to the format, for the x that exp produces above.
LogTab ==
  (<<9, -32>> :> <<-10, 1>>) @@ (<<8, -29>> :> <<-9, 1>>) @@ (<<15, -27>> :> <<-8, 1>>)
  @@ (<<10, -25>> :> <<-15, 0>>) @@ (<<14, -24>> :> <<-14, 0>>) @@ (<<9, -22>> :> <<-13, 0>>)
  @@ (<<13, -21>> :> <<-12, 0>>) @@ (<<9, -19>> :> <<-11, 0>>) @@ (<<12, -18>> :> <<-10, 0>>)
  @@ (<<8, -16>> :> <<-9, 0>>) @@ (<<11, -15>> :> <<-8, 0>>) @@ (<<15, -14>> :> <<-14, -1>>)
  @@ (<<10, -12>> :> <<-12, -1>>) @@ (<<14, -11>> :> <<-10, -1>>) @@ (<<9, -9>> :> <<-8, -1>>)
  @@ (<<13, -8>> :> <<-12, -2>>) @@ (<<9, -6>> :> <<-8, -2>>) @@ (<<12, -5>> :> <<-8, -3>>)
  @@ (<<8, -3>> :> <<0, 0>>) @@ (<<11, -2>> :> <<8, -3>>) @@ (<<15, -1>> :> <<8, -2>>)

\* tf.tanh: odd, the identity below 1/2 where the table has no entry, and
\* rounded to exactly 1 from 2.25 on (float32 does so from 9.02 on).
Tanh(x) ==
  IF x.c = "nan" THEN NaN
  ELSE IF x.c = "inf" THEN WithSign(x.m, One)
  ELSE LET a == Mag(x)
       IN WithSign(x.m, IF Key(a) \in DOMAIN TanhTab THEN Val(TanhTab[Key(a)])
                        ELSE IF Less(a, Half) THEN a ELSE One)

\* tf.atanh: atanh(1) = +Inf, atanh(-1) = -Inf, NaN outside [-1, 1].
Atanh(y) ==
  IF y.c = "nan" THEN NaN
  ELSE IF y.c = "inf" THEN NaN
  ELSE LET a == Mag(y)
       IN IF Less(One, a) THEN NaN
          ELSE IF a = One THEN Inf(y.m)
          ELSE WithSign(y.m, IF Key(a) \in DOMAIN AtanhTab THEN Val(AtanhTab[Key(a)])
                             ELSE a)

\* tf.nn.softplus.
Softplus(t) ==
  IF t.c = "nan" THEN NaN
  ELSE IF t.c = "inf" THEN (IF t.m < 0 THEN Zero ELSE PInf)
  ELSE IF Key(t) \in DOMAIN SoftplusTab THEN Val(SoftplusTab[Key(t)])
  ELSE IF Less(Mag(t), Fin(8, -6)) THEN Log2
  ELSE IF t.m > 0 THEN t ELSE Zero

\* tf.exp, on the integers of [-20, 2] (the clipped log_scale_diag).
Exp(x) == Val(ExpTab[Key(x)])

\* tf.log, on the values of Exp.
Log(x) == Val(LogTab[Key(x)])

(***************************************************************************)
(* Tensors: a batch is a sequence of rows, a row a sequence of numbers     *)
(***************************************************************************)
\* TLC evaluates [i \in 1..n |-> e] element by element at every use; Tuple(f)
\* is the same sequence with its elements evaluated once.
Tuple(f) == f \o <<>>

RECURSIVE ReduceSum(_)
ReduceSum(r) ==
  IF Len(r) = 0 THEN Zero
  ELSE IF Len(r) = 1 THEN r[1]
  ELSE Add(ReduceSum(SubSeq(r, 1, Len(r) - 1)), r[Len(r)])

RECURSIVE Flatten(_)
Flatten(rows) == IF Len(rows) = 0 THEN <<>> ELSE Head(rows) \o Flatten(Tail(rows))

\* tf.concat(x, axis=-1) of a list of batches with equally many rows.
Concat(x) == Tuple([i \in 1..Len(x[1]) |-> Flatten(Tuple([k \in 1..Len(x) |-> x[k][i]]))])

\* tf.split(x, 2, axis=-1)[half - 1].
Split(x, half) ==
  Tuple([i \in 1..Len(x) |->
           LET n == Len(x[i]) \div 2
           IN SubSeq(x[i], (half - 1) * n + 1, half * n)])

SCALE_DIAG_MIN_MAX == <<-20, 2>>

\* Variant: the upper bound alone, tf.minimum(x, hi).
ClipAbove(x, lo, hi) ==
  Tuple([i \in 1..Len(x) |-> Tuple([j \in 1..Len(x[i]) |-> Minimum(x[i][j], F(hi))])])

\* tf.clip_by_value(x, lo, hi) = maximum(minimum(x, hi), lo), elementwise.
ClipByValue(x, lo, hi) ==
  Tuple([i \in 1..Len(x) |->
           Tuple([j \in 1..Len(x[i]) |-> Maximum(Minimum(x[i][j], F(hi)), F(lo))])])

Activation(name, x) == IF name = "relu" THEN Maximum(x, Zero) ELSE x

\* tf.keras.layers.Dense: activation(x . kernel + bias), row by row.
Dense(x, kernel, bias, activation) ==
  Tuple([i \in 1..Len(x) |->
           Tuple([j \in 1..Len(bias) |->
                    Activation(activation,
                               Add(ReduceSum(Tuple([k \in 1..Len(x[i]) |->
                                                      Mul(x[i][k], kernel[k][j])])),
                                   bias[j]))])])

\* The shape of a batch of rows, (batch, features).
Shape(x) == <<Len(x), IF Len(x) = 0 THEN 0 ELSE Len(x[1])>>

(***************************************************************************)
(* Bijectors and the transformed distribution (tensorflow_probability)     *)
(***************************************************************************)
SquashBijector == [kind |-> "Squash"]

Identity == [kind |-> "Identity"]

Affine(shift, scale_diag) == [kind |-> "Affine", shift |-> shift, scale_diag |-> scale_diag]

Chain(bijectors) == [kind |-> "Chain", bijectors |-> bijectors]

\* SquashBijector._forward_log_det_jacobian, per element.
SquashFldj(x) == Mul(Two, Sub(Sub(Log2, x), Softplus(Mul(F(-2), x))))

\* bijector.forward(x) on one row; a Chain applies its last bijector first.
RECURSIVE Forward(_, _)
Forward(b, x) ==
  CASE b.kind = "Squash" -> Tuple([d \in 1..Len(x) |-> Tanh(x[d])])
    [] b.kind = "Identity" -> x
    [] b.kind = "Affine" ->
         Tuple([d \in 1..Len(x) |-> Add(Mul(b.scale_diag[d], x[d]), b.shift[d])])
    [] b.kind = "Chain" ->
         IF Len(b.bijectors) = 0 THEN x
         ELSE Forward(Chain(SubSeq(b.bijectors, 1, Len(b.bijectors) - 1)),
                      Forward(b.bijectors[Len(b.bijectors)], x))

\* bijector.inverse(y) on one row; a Chain inverts its first bijector first.
RECURSIVE Inverse(_, _)
Inverse(b, y) ==
  CASE b.kind = "Squash" -> Tuple([d \in 1..Len(y) |-> Atanh(y[d])])
    [] b.kind = "Identity" -> y
    [] b.kind = "Affine" ->
         Tuple([d \in 1..Len(y) |-> Div(Sub(y[d], b.shift[d]), b.scale_diag[d])])
    [] b.kind = "Chain" ->
         IF Len(b.bijectors) = 0 THEN y
         ELSE Inverse(Chain(Tail(b.bijectors)), Inverse(Head(b.bijectors), y))

\* bijector.forward_log_det_jacobian(x, event_ndims=1) of the three basic bijectors.
ForwardLogDetJacobian(b, x) ==
  CASE b.kind = "Squash" -> ReduceSum(Tuple([d \in 1..Len(x) |-> SquashFldj(x[d])]))
    [] b.kind = "Identity" -> Zero
    [] b.kind = "Affine" ->
         ReduceSum(Tuple([d \in 1..Len(b.scale_diag) |-> Log(Mag(b.scale_diag[d]))]))

\* bijector.inverse_log_det_jacobian(y, event_ndims=1): minus the forward term at
\* inverse(y); a Chain sums its bijectors' terms along the inversion path.
RECURSIVE InverseLogDetJacobian(_, _)
InverseLogDetJacobian(b, y) ==
  IF b.kind = "Chain"
  THEN IF Len(b.bijectors) = 0 THEN Zero
       ELSE Add(InverseLogDetJacobian(Head(b.bijectors), y),
                InverseLogDetJacobian(Chain(Tail(b.bijectors)),
                                      Inverse(Head(b.bijectors), y)))
  ELSE Neg(ForwardLogDetJacobian(b, Inverse(b, y)))

\* MultivariateNormalDiag(loc=zeros, scale_diag=ones).log_prob(z) on one row.
BaseLogProb(z) ==
  ReduceSum(Tuple([d \in 1..Len(z) |->
                     Sub(Mul(Fin(-8, -4), Mul(z[d], z[d])), HalfLog2Pi)]))

\* ConditionalTransformedDistribution(base, bijector).log_prob(y) on one row.
LogProb(bijector, y) ==
  Add(InverseLogDetJacobian(bijector, y), BaseLogProb(Inverse(bijector, y)))

(***************************************************************************)
(* The policy                                                              *)
(***************************************************************************)
VARIABLES
  input_shapes,        \* constructor argument: the feature count of each source
  output_shape,        \* constructor argument: <<A>>
  hidden_layer_sizes,  \* constructor argument
  squash,              \* self._squash
  weights,             \* the Dense layers' kernels and biases, by variable
  graph_seed,          \* the graph-level random seed <<s>>, None when not set
  op_seed,             \* per run, the seed the sample op of line 76 ends up with
  draws,               \* how many times the sample op has run
  ret                  \* the last operation, its arguments and what it returned

vars == <<input_shapes, output_shape, hidden_layer_sizes, squash, weights,
          graph_seed, op_seed, draws, ret>>

MaxBatch == 4

MaxDim == 2

MaxDraws == 2

None == <<>>

Runs == {1, 2}

\* What the system's entropy source hands each run; no two runs get the same.
Entropy == [r \in Runs |-> r]

\* ---- the layer graph that __init__ builds; a node is <<name, index>> ----
Node(name) == <<name, 0>>

ConditionInputs == Tuple([i \in 1..Len(input_shapes) |-> <<"condition_input", i>>])

\* Variant: the scoring Lambda called on the unclipped half of the split.
log_pis_inputs_unclipped ==
  <<Node("shift"), Node("log_scale_diag_split"), Node("actions_input")>>

\* Variant: the scoring Lambda called on the sampling path's own output.
log_pis_inputs_sampled == <<Node("shift"), Node("log_scale_diag"), Node("actions")>>

\* The tensors the two Lambda layers over the conditioner are called on.
raw_actions_inputs == <<Node("shift"), Node("log_scale_diag"), Node("latents")>>

log_pis_inputs == <<Node("shift"), Node("log_scale_diag"), Node("actions_input")>>

\* The tensors each layer is called on.
InboundNodes(n) ==
  CASE n[1] = "conditions" -> ConditionInputs
    [] n[1] = "dense" ->
         IF n[2] = 1 THEN <<Node("conditions")>> ELSE << <<"dense", n[2] - 1>> >>
    [] n[1] = "out" ->
         IF Len(hidden_layer_sizes) = 0 THEN <<Node("conditions")>>
         ELSE << <<"dense", Len(hidden_layer_sizes)>> >>
    [] n[1] = "shift" -> <<Node("out")>>
    [] n[1] = "log_scale_diag_split" -> <<Node("out")>>
    [] n[1] = "log_scale_diag" -> <<Node("log_scale_diag_split")>>
    [] n[1] = "batch_size" -> <<Node("conditions")>>
    [] n[1] = "latents" -> <<Node("batch_size")>>
    [] n[1] = "raw_actions" -> raw_actions_inputs
    [] n[1] = "actions" -> <<Node("raw_actions")>>
    [] n[1] = "log_pis" -> log_pis_inputs
    [] OTHER -> <<>>

\* A Dense layer's variables; no other layer has any.
LayerVariables(n) ==
  IF n[1] \in {"dense", "out"} THEN {<<n[1], n[2], "kernel">>, <<n[1], n[2], "bias">>}
  ELSE {}

Range(f) == {f[i] : i \in DOMAIN f}

\* The layers of tf.keras.Model(inputs, outputs): all that outputs depend on.
RECURSIVE ModelLayers(_)
ModelLayers(outputs) ==
  IF outputs = {} THEN {}
  ELSE outputs \cup ModelLayers(UNION {Range(InboundNodes(n)) : n \in outputs})

actions_model == [inputs |-> ConditionInputs, output |-> Node("actions")]

log_pis_model ==
  [inputs |-> ConditionInputs \o <<Node("actions_input")>>, output |-> Node("log_pis")]

ModelVariables(model) == UNION {LayerVariables(n) : n \in ModelLayers({model.output})}

trainable_variables == ModelVariables(actions_model)

\* Variant: the squash applied whatever the flag.
squash_bijector_always == SquashBijector

squash_bijector == IF squash THEN SquashBijector ELSE Identity

\* ---- the sample op ----
\* tf.get_seed for an op created without a seed: the graph-level seed decides
\* the stream, and without one the op is seeded from the system's entropy.
GetSeedFromEntropy(graph, entropy) == entropy

GetSeed(graph, entropy) == IF graph = None THEN entropy ELSE graph[1]

\* The op's output is a function of its seed and of how often it has run.
LatentValues == <<Zero, Fin(10, -3), F(-1), Half, F(-2)>>

Sample(rng, batch_size, event_size) ==
  Tuple([i \in 1..batch_size |->
           Tuple([d \in 1..event_size |->
                    LatentValues[((rng.seed + 2 * rng.draws + i + d) % Len(LatentValues)) + 1]])])

\* ---- the Lambda layers' functions ----
raw_actions_fn(inputs) ==
  LET shift == inputs[1]
      log_scale_diag == inputs[2]
      latents == inputs[3]
  IN Tuple([i \in 1..Len(latents) |->
              Forward(Affine(shift[i],
                             Tuple([d \in 1..Len(shift[i]) |-> Exp(log_scale_diag[i][d])])),
                      latents[i])])

\* Variant: v[None, :], one row of B numbers.
RowVector(v) == <<v>>

\* v[:, None]: a vector of B numbers as B rows of one.
Column(v) == Tuple([i \in 1..Len(v) |-> <<v[i]>>])

log_pis_fn(inputs) ==
  LET shift == inputs[1]
      log_scale_diag == inputs[2]
      actions == inputs[3]
  IN Column(Tuple([i \in 1..Len(actions) |->
                     LET bijector ==
                           Chain(<<squash_bijector,
                                   Affine(shift[i],
                                          Tuple([d \in 1..Len(shift[i]) |->
                                                   Exp(log_scale_diag[i][d])]))>>)
                     IN LogProb(bijector, actions[i])]))

\* One layer called on the values x of its inbound tensors.
CallLayer(n, x, w, rng) ==
  CASE n[1] = "conditions" -> Concat(x)
    [] n[1] = "dense" -> Dense(x[1], w[<<"dense", n[2], "kernel">>],
                               w[<<"dense", n[2], "bias">>], "relu")
    [] n[1] = "out" -> Dense(x[1], w[<<"out", 0, "kernel">>],
                             w[<<"out", 0, "bias">>], "linear")
    [] n[1] = "shift" -> Split(x[1], 1)
    [] n[1] = "log_scale_diag_split" -> Split(x[1], 2)
    [] n[1] = "log_scale_diag" ->
         ClipByValue(x[1], SCALE_DIAG_MIN_MAX[1], SCALE_DIAG_MIN_MAX[2])
    [] n[1] = "batch_size" -> Len(x[1])
    [] n[1] = "latents" -> Sample(rng, x[1], output_shape[1])
    [] n[1] = "raw_actions" -> raw_actions_fn(x)
    [] n[1] = "actions" ->
         Tuple([i \in 1..Len(x[1]) |-> Forward(squash_bijector, x[1][i])])
    [] n[1] = "log_pis" -> log_pis_fn(x)

\* Keras runs a model's graph from the fed inputs on: each layer is called once,
\* when the tensors it is called on are there, and its output is kept in
\* tensor_map for the layers after it.  Nothing is kept from one run to the next.
RECURSIVE RunInternalGraph(_, _, _, _)
RunInternalGraph(layers, tensor_map, w, rng) ==
  IF layers \subseteq DOMAIN tensor_map THEN tensor_map
  ELSE LET ready == {n \in layers \ DOMAIN tensor_map :
                       Range(InboundNodes(n)) \subseteq DOMAIN tensor_map}
       IN RunInternalGraph(
            layers,
            tensor_map @@ [n \in ready |->
                             CallLayer(n,
                                       Tuple([k \in 1..Len(InboundNodes(n)) |->
                                                tensor_map[InboundNodes(n)[k]]]),
                                       w, rng)],
            w, rng)

\* The value of tensor n when the model's inputs are fed.
Tensor(n, feeds, w, rng) == RunInternalGraph(ModelLayers({n}), feeds, w, rng)[n]

\* The model's inputs fed the arguments in order.
Feeds(model, args) ==
  [n \in Range(model.inputs) |->
     args[CHOOSE k \in 1..Len(model.inputs) : model.inputs[k] = n]]

\* model(args): the model's output with its inputs fed.
CallModel(model, args, w, rng) == Tensor(model.output, Feeds(model, args), w, rng)

Rng(run) == [seed |-> op_seed[run], draws |-> draws]

\* ---- the values the model is exercised with ----
RECURSIVE SumInts(_)
SumInts(q) == IF Len(q) = 0 THEN 0 ELSE Head(q) + SumInts(Tail(q))

Cyc(q, j) == q[((j - 1) % Len(q)) + 1]

\* The Dense layers that __init__ creates.
DenseLayers(hidden) == {<<"dense", k>> : k \in 1..Len(hidden)} \cup {Node("out")}

\* (inputs, units) of a Dense layer.
LayerDims(n, shapes, hidden, out) ==
  LET widths == <<SumInts(shapes)>> \o hidden \o <<2 * out[1]>>
      k == IF n[1] = "out" THEN Len(hidden) + 1 ELSE n[2]
  IN <<widths[k], widths[k + 1]>>

\* Weight values: every kernel entry is p.kernel, a hidden bias is 0, the output
\* bias is p.shift (cyclically) on the shift half and p.log_scale on the other.
Presets ==
  { [kernel |-> 0, shift |-> <<0>>, log_scale |-> <<0>>],
    [kernel |-> 0, shift |-> <<0>>, log_scale |-> <<5, -30>>],
    [kernel |-> 1, shift |-> <<0, 10>>, log_scale |-> <<-1>>] }

PresetWeights(p, shapes, hidden, out) ==
  [v \in UNION {{<<n[1], n[2], "kernel">>, <<n[1], n[2], "bias">>} : n \in DenseLayers(hidden)} |->
     LET dims == LayerDims(<<v[1], v[2]>>, shapes, hidden, out)
     IN IF v[3] = "kernel"
        THEN Tuple([k \in 1..dims[1] |-> Tuple([j \in 1..dims[2] |-> F(p.kernel)])])
        ELSE Tuple([j \in 1..dims[2] |->
                      IF v[1] = "dense" THEN Zero
                      ELSE IF j <= out[1] THEN F(Cyc(p.shift, j))
                      ELSE F(Cyc(p.log_scale, j - out[1]))])]

\* Conditioning batches: one batch per source, each value 0 or 1.
Conditions(k, batch) ==
  Tuple([s \in 1..Len(input_shapes) |->
           Tuple([i \in 1..batch |->
                    Tuple([f \in 1..input_shapes[s] |-> F((k + i + s + f) % 2)])])])

ConditionBatches == {Conditions(0, 1), Conditions(1, MaxBatch)}

\* The numpy batches predict() is called on.
ConditionArrays == {Conditions(k, 2) : k \in 0..1}

\* Candidate actions supplied from outside, inside (-1, 1).
ActionValues == <<Zero, Half, Fin(-12, -4)>>

Candidates(batch) ==
  {Tuple([i \in 1..batch |->
            Tuple([d \in 1..output_shape[1] |-> Cyc(ActionValues, i + d)])])}

Architectures ==
  { [input_shapes |-> <<3>>, hidden_layer_sizes |-> <<>>],
    [input_shapes |-> <<1, 1>>, hidden_layer_sizes |-> <<2>>] }

\* ---- construction ----
\* What ret records: the operation, its arguments, what it returned (out), what
\* the same call returned in a second run of the program stepped side by side
\* (twin, kept for the sampling operations), the latents the sample op drew,
\* and whether the scored actions are those the previous call sampled.
Returned(op, conditions, actions_in, out, twin, latents, sampled) ==
  [op |-> op, conditions |-> conditions, actions |-> actions_in, out |-> out,
   twin |-> twin, latents |-> latents, sampled |-> sampled]

Init ==
  /\ \E a \in Architectures :
       /\ input_shapes = a.input_shapes
       /\ hidden_layer_sizes = a.hidden_layer_sizes
  /\ output_shape \in {<<n>> : n \in 1..MaxDim}
  /\ squash \in BOOLEAN
  /\ \E p \in Presets :
       weights = PresetWeights(p, input_shapes, hidden_layer_sizes, output_shape)
  /\ graph_seed \in {None, <<1>>}
  /\ op_seed = [r \in Runs |-> GetSeed(graph_seed, Entropy[r])]
  /\ draws = 0
  /\ ret = Returned("init", <<>>, <<>>, <<>>, <<>>, <<>>, FALSE)

\* ---- the public operations ----
SamplingOps == {"actions", "actions_np"}

ScoringOps == {"log_pis", "log_pis_np"}

\* self.actions_model(conditions) and self.actions_model.predict(conditions):
\* one run of the sample op.
RunActionsModel(op, conditions) ==
  /\ draws < MaxDraws
  /\ ret' = Returned(op, conditions, <<>>,
                     CallModel(actions_model, conditions, weights, Rng(1)),
                     CallModel(actions_model, conditions, weights, Rng(2)),
                     Tensor(Node("latents"), Feeds(actions_model, conditions),
                            weights, Rng(1)),
                     FALSE)
  /\ draws' = draws + 1
  /\ UNCHANGED <<input_shapes, output_shape, hidden_layer_sizes, squash, weights,
                 graph_seed, op_seed>>

\* self.log_pis_model([*conditions, actions]), either way of calling it; the
\* actions are a candidate batch or the batch the last call sampled for the
\* same conditions.
RunLogPisModel(op, conditions, a) ==
  /\ ret' = Returned(op, conditions, a,
                     CallModel(log_pis_model, conditions \o <<a>>, weights, Rng(1)),
                     <<>>,
                     IF ret.op \in SamplingOps /\ ret.conditions = conditions /\ ret.out = a
                     THEN ret.latents ELSE <<>>,
                     ret.op \in SamplingOps /\ ret.conditions = conditions /\ ret.out = a)
  /\ UNCHANGED <<input_shapes, output_shape, hidden_layer_sizes, squash, weights,
                 graph_seed, op_seed, draws>>

ScoredActions(conditions) ==
  Candidates(Len(conditions[1]))
    \cup (IF ret.op \in SamplingOps /\ ret.conditions = conditions THEN {ret.out} ELSE {})

actions == \E c \in ConditionBatches : RunActionsModel("actions", c)

actions_np == \E c \in ConditionArrays : RunActionsModel("actions_np", c)

log_pis ==
  \E c \in ConditionBatches : \E a \in ScoredActions(c) : RunLogPisModel("log_pis", c, a)

log_pis_np ==
  \E c \in ConditionArrays : \E a \in ScoredActions(c) : RunLogPisModel("log_pis_np", c, a)

\* Variant: reset() re-initialising the layers.
reset_reinitializes ==
  /\ weights' = [v \in DOMAIN weights |->
                   Tuple([k \in 1..Len(weights[v]) |->
                            IF v[3] = "bias" THEN Zero
                            ELSE Tuple([j \in 1..Len(weights[v][k]) |-> Zero])])]
  /\ ret' = Returned("reset", <<>>, <<>>, <<>>, <<>>, <<>>, FALSE)
  /\ UNCHANGED <<input_shapes, output_shape, hidden_layer_sizes, squash,
                 graph_seed, op_seed, draws>>

\* def reset(self): pass
reset ==
  /\ ret' = Returned("reset", <<>>, <<>>, <<>>, <<>>, <<>>, FALSE)
  /\ UNCHANGED <<input_shapes, output_shape, hidden_layer_sizes, squash, weights,
                 graph_seed, op_seed, draws>>

\* OrderedDict({}) is the empty mapping, whatever iteration and batch are.
get_diagnostics ==
  \E iteration \in 0..1 : \E batch \in ConditionArrays :
    /\ ret' = Returned("get_diagnostics", <<>>, <<>>, <<>>, <<>>, <<>>, FALSE)
    /\ UNCHANGED <<input_shapes, output_shape, hidden_layer_sizes, squash, weights,
                   graph_seed, op_seed, draws>>

\* The external optimizer: it assigns new values to the variables that
\* trainable_variables hands it, and to no other.
Optimizer ==
  \E p \in Presets :
    /\ weights' = [v \in DOMAIN weights |->
                     IF v \in trainable_variables
                     THEN PresetWeights(p, input_shapes, hidden_layer_sizes, output_shape)[v]
                     ELSE weights[v]]
    /\ ret' = Returned("optimizer", <<>>, <<>>, <<>>, <<>>, <<>>, FALSE)
    /\ UNCHANGED <<input_shapes, output_shape, hidden_layer_sizes, squash,
                   graph_seed, op_seed, draws>>

Next ==
  \/ actions
  \/ actions_np
  \/ log_pis
  \/ log_pis_np
  \/ reset
  \/ get_diagnostics
  \/ Optimizer

Spec == Init /\ [][Next]_vars

(***************************************************************************)
(* Properties                                                              *)
(***************************************************************************)
Elements(x) == UNION {Range(x[i]) : i \in DOMAIN x}

HasShape(x, rows, columns) ==
  Len(x) = rows /\ \A i \in 1..Len(x) : Len(x[i]) = columns

\* The tensors of one run of actions_model on the conditions c, up to those
\* the sampling Lambda is called on.
SamplingRun(c) ==
  RunInternalGraph(ModelLayers(Range(InboundNodes(Node("raw_actions")))),
                   Feeds(actions_model, c), weights, Rng(1))

\* The tensors of one run of log_pis_model on the conditions c (whatever
\* actions are fed with them), up to those the scoring Lambda is called on.
ScoringRun(c) ==
  RunInternalGraph(ModelLayers(Range(InboundNodes(Node("log_pis")))),
                   Feeds(log_pis_model,
                         c \o <<CHOOSE a \in Candidates(Len(c[1])) : TRUE>>),
                   weights, Rng(1))

\* The k-th tensor (1 shift, 2 log_scale_diag) the sampling Lambda is called on
\* in the run.
SamplingParameter(k, run) == run[InboundNodes(Node("raw_actions"))[k]]

\* The k-th tensor the scoring Lambda is called on in the run.
ScoringParameter(k, run) == run[InboundNodes(Node("log_pis"))[k]]

\* exp of a row of log scales.
ScaleDiag(row) == Tuple([d \in 1..Len(row) |-> Exp(row[d])])

\* ---- C1 ----
\* C1: with squash=true every element of a batch that actions or actions_np
\* returned lies strictly between -1 and 1.
C1_SquashedActionsStrictlyInside ==
  (squash /\ ret.op \in SamplingOps)
    => \A v \in Elements(ret.out) : Less(F(-1), v) /\ Less(v, One)

\* ---- C2 ----
\* C2: when the actions just sampled for c are scored with the same c, every
\* log-probability returned is finite.
C2_SampledActionsScoreFinite ==
  (ret.op \in ScoringOps /\ ret.sampled)
    => \A v \in Elements(ret.out) : IsFinite(v)

\* ---- C3 ----
\* x is y up to rounding: both finite and no further apart than half of |y|.
Near(x, y) ==
  IsFinite(x) /\ IsFinite(y) /\ ~Less(Mul(Half, Mag(y)), Mag(Sub(x, y)))

\* C3: the sampled action is squash(affine(latent)); inverting the scoring chain
\* on it gives back the latent, and the log-probability is the base density at
\* that latent minus the affine and the squash forward log-det-Jacobian (each
\* equality read up to rounding).
C3_ChainInversionRecoversLatent ==
  (ret.op \in ScoringOps /\ ret.sampled)
    => \A i \in 1..Len(ret.actions) :
         LET run == ScoringRun(ret.conditions)
             affine == Affine(ScoringParameter(1, run)[i],
                              ScaleDiag(ScoringParameter(2, run)[i]))
             chain == Chain(<<squash_bijector, affine>>)
             z == ret.latents[i]
         IN /\ ret.actions[i] = Forward(squash_bijector, Forward(affine, z))
            /\ \A d \in 1..Len(z) : Near(Inverse(chain, ret.actions[i])[d], z[d])
            /\ Near(ret.out[i][1],
                    Sub(BaseLogProb(z),
                        Add(ForwardLogDetJacobian(affine, z),
                            ForwardLogDetJacobian(squash_bijector, Forward(affine, z)))))

\* ---- C4 ----
\* What clipping to [-20, 2] is to do to one number.
Clipped(v) == IF Less(v, F(-20)) THEN F(-20) ELSE IF Less(F(2), v) THEN F(2) ELSE v

ExtremeValues == {NInf, Fin(-15, 124), F(-1000), F(-21), F(-20), F(-19), Zero,
                  Fin(1, -129), One, F(2), F(3), F(1000), Fin(15, 124), PInf}

\* C4: whatever the final Dense layer puts out, the log_scale_diag both Lambdas
\* are called on is its second half with values below -20 replaced by -20,
\* values above 2 by 2 and the others unchanged, so it lies in [-20, 2]; the
\* shift both are called on is the first half as it is.
C4_LogScaleDiagClipped ==
  /\ \A c \in ConditionArrays :
       LET sampling == SamplingRun(c)
           scoring == ScoringRun(c)
           out == sampling[Node("out")]
           A == output_shape[1]
       IN \A p \in {SamplingParameter(2, sampling), ScoringParameter(2, scoring)} :
          \A q \in {SamplingParameter(1, sampling), ScoringParameter(1, scoring)} :
            /\ HasShape(p, Len(out), A) /\ HasShape(q, Len(out), A)
            /\ \A i \in 1..Len(out) : \A d \in 1..A :
                 /\ p[i][d] = Clipped(out[i][A + d])
                 /\ ~Less(p[i][d], F(-20)) /\ ~Less(F(2), p[i][d])
                 /\ q[i][d] = out[i][d]
  /\ \A v \in ExtremeValues :
       ClipByValue(<< <<v>> >>, SCALE_DIAG_MIN_MAX[1], SCALE_DIAG_MIN_MAX[2])
         = << <<Clipped(v)>> >>

\* Sampling ran on a conditioner output with a log scale below -20 and one above 2.
C4_Witness ==
  /\ ret.op \in SamplingOps
  /\ \E c \in ConditionArrays :
       LET sampling == SamplingRun(c)
       IN /\ \E v \in Elements(sampling[Node("out")]) : Less(v, F(-20))
          /\ \E v \in Elements(sampling[Node("out")]) : Less(F(2), v)
          /\ Elements(SamplingParameter(2, sampling)) = {F(-20), F(2)}

C6_BothPathsShareParameters ==
  /\ \A c \in ConditionArrays :
       LET sampling == SamplingRun(c)
           scoring == ScoringRun(c)
       IN \A k \in 1..2 : SamplingParameter(k, sampling) = ScoringParameter(k, scoring)
  /\ ModelVariables(log_pis_model) = trainable_variables
  /\ trainable_variables = DOMAIN weights

\* Both paths have been called, and the weights are such that the clip matters
\* and the conditioner output depends on the conditions.
C6_Witness ==
  /\ ret.op \in ScoringOps
  /\ draws = MaxDraws
  /\ \E c \in ConditionArrays :
       ScoringParameter(2, ScoringRun(c)) # SamplingRun(c)[Node("log_scale_diag_split")]

\* ---- C7 ----
\* C7: with squash=false a sampled batch is shift + exp(log_scale_diag) * latent
\* element by element, and the bijector the scoring chain starts with maps every
\* row to itself with a zero log-det-Jacobian.
C7_UnsquashedActionsAreRaw ==
  (~squash /\ ret.op \in SamplingOps)
    => LET run == SamplingRun(ret.conditions)
           shift == SamplingParameter(1, run)
           log_scale_diag == SamplingParameter(2, run)
       IN /\ HasShape(ret.out, Len(shift), output_shape[1])
          /\ \A i \in 1..Len(ret.out) :
               /\ \A d \in 1..Len(ret.out[i]) :
                    ret.out[i][d] = Add(Mul(Exp(log_scale_diag[i][d]), ret.latents[i][d]),
                                        shift[i][d])
               /\ Inverse(squash_bijector, ret.out[i]) = ret.out[i]
               /\ ForwardLogDetJacobian(squash_bijector, ret.out[i]) = Zero
               /\ InverseLogDetJacobian(squash_bijector, ret.out[i]) = Zero

\* An unsquashed batch with an element above 1.
C7_Witness ==
  /\ ~squash
  /\ ret.op \in SamplingOps
  /\ \E v \in Elements(ret.out) : Less(One, v)

\* ---- C8 ----
\* C8: a sampling call on B conditioning rows returns B rows of A numbers, one
\* latent row drawn per conditioning row; a scoring call on B rows of A numbers
\* returns B rows of one number.
C8_OutputShapes ==
  /\ ret.op \in SamplingOps
       => /\ HasShape(ret.out, Len(ret.conditions[1]), output_shape[1])
          /\ HasShape(ret.latents, Len(ret.conditions[1]), output_shape[1])
  /\ ret.op \in ScoringOps
       => /\ HasShape(ret.actions, Len(ret.conditions[1]), output_shape[1])
          /\ HasShape(ret.out, Len(ret.conditions[1]), 1)

\* A=2, no hidden layer, one source of 3 features, batch 4: the batch of shape
\* (4, 2) that actions returned is scored into shape (4, 1).
C8_Witness ==
  /\ input_shapes = <<3>>
  /\ hidden_layer_sizes = <<>>
  /\ output_shape = <<2>>
  /\ ret.op = "log_pis"
  /\ ret.sampled
  /\ Shape(ret.conditions[1]) = <<4, 3>>
  /\ Shape(ret.actions) = <<4, 2>>
  /\ Shape(ret.out) = <<4, 1>>

AnyRng == {[seed |-> s, draws |-> d] : s \in Runs, d \in {0, MaxDraws}}

====
